---- MODULE Spec2Model ----
(***************************************************************************)
(* A model of plugins/modules/central_groups.py: one invocation of main,   *)
(* from the parameters held by module.params to the exit_json / fail_json  *)
(* call that ends it, and the pure helper remove_nulls on nested data.     *)
(*                                                                         *)
(* Python values are tagged records, so that None, strings, numbers,       *)
(* booleans, lists and dicts stay distinct and comparable.                 *)
(***************************************************************************)
EXTENDS Integers, Sequences, FiniteSets, TLC

VARIABLES
    params,       \* module.params after AnsibleModule(argument_spec=...)
    pc,           \* position of the invocation: start, waiting, returned, done
    changed,      \* main's local `changed`
    handlers,     \* the handlers api_call has selected, in order
    calls,        \* every call made on the CentralApi object, in order
    result,       \* the {resp, code} record main holds
    outcome,      \* the exit_json / fail_json call that ended the invocation
    data,         \* remove_nulls: the argument of the outermost call
    parsed_data,  \* remove_nulls: what has been returned so far
    passes        \* remove_nulls: how many times it has been applied

vars == <<params, pc, changed, handlers, calls, result, outcome,
          data, parsed_data, passes>>

----------------------------------------------------------------------------
(* Python values *)

None == [t |-> "none"]
Str(s) == [t |-> "str", s |-> s]
Num(i) == [t |-> "int", i |-> i]
Bool(b) == [t |-> "bool", b |-> b]
List(q) == [t |-> "list", l |-> q]
Dict(f) == [t |-> "dict", d |-> f]

\* bool(v) as Python's `if` and `and` take it
Truthy(v) ==
    CASE v.t = "none" -> FALSE
      [] v.t = "str"  -> v.s # ""
      [] v.t = "int"  -> v.i # 0
      [] v.t = "bool" -> v.b
      [] v.t = "list" -> v.l # <<>>
      [] v.t = "dict" -> DOMAIN v.d # {}
      [] OTHER        -> TRUE

\* what a function call ends with: a returned value, a raised exception, or
\* (Pending) the value the HTTP client will hand back for the call just made
Return(v) == [k |-> "return", v |-> v]
Raise(e) == [k |-> "raise", e |-> e]
Pending == [k |-> "client"]

----------------------------------------------------------------------------
(* Bounds of the inputs *)

MaxGroups == 2      \* longest group_list drawn
MaxOptions == 1     \* most optional group_attributes sub-fields set at once
MaxDepth == 2       \* nesting depth of the structures given to remove_nulls

----------------------------------------------------------------------------
(* remove_nulls, lines 161-169 *)

RECURSIVE remove_nulls(_)
remove_nulls(d) ==
    Dict([key \in {k \in DOMAIN d.d : d.d[k] # None} |->
             IF d.d[key].t = "dict" THEN remove_nulls(d.d[key])
                                    ELSE d.d[key]])

----------------------------------------------------------------------------
(* error_msg, lines 171-187.  `resp` is bound only in the four branches; any *)
(* other method name reaches line 186 with `resp` unbound.                   *)

error_msg(method) ==
    IF method = "create" \/ method = "update"
    THEN Return([resp |-> Str("Group name or Group attributes not present in the playbook"),
                 code |-> Num(400)])
    ELSE IF method = "delete"
    THEN Return([resp |-> Str("Group name to be deleted not present in the playbook"),
                 code |-> Num(400)])
    ELSE IF method = "clone"
    THEN Return([resp |-> Str("Group name or clone-from-group parameters not present in the playbook"),
                 code |-> Num(400)])
    ELSE IF method = "get"
    THEN Return([resp |-> Str("List of groups (group_list) not present in the playbook"),
                 code |-> Num(400)])
    ELSE Raise("UnboundLocalError")

----------------------------------------------------------------------------
(* The CentralApi collaborator (module_utils/central_http.py).  A call is    *)
(* logged as a record; what get_headers, get_url and get_list_params hand    *)
(* back is kept structured.                                                  *)

RECURSIVE JoinFrom(_, _)
JoinFrom(q, i) ==
    IF i > Len(q) THEN ""
    ELSE IF i = Len(q) THEN q[i].s
    ELSE q[i].s \o "," \o JoinFrom(q, i + 1)

get_list_params(items) == Str(JoinFrom(items.l, 1))
get_headers(auth_required, http_method) ==
    [t |-> "headers", auth_required |-> auth_required, http_method |-> http_method]
get_url(endpoint, query_params) ==
    [t |-> "url", endpoint |-> endpoint, query_params |-> query_params]

CallGetHeaders(auth_required, http_method) ==
    [fn |-> "get_headers", auth_required |-> auth_required, http_method |-> http_method]
CallGetUrl(endpoint, query_params) ==
    [fn |-> "get_url", endpoint |-> endpoint, query_params |-> query_params]
CallGetListParams(items) == [fn |-> "get_list_params", items |-> items]
CallGet(path, headers) == [fn |-> "get", path |-> path, headers |-> headers]
CallPost(path, headers, body) ==
    [fn |-> "post", path |-> path, headers |-> headers, data |-> body]
CallPatch(path, headers, body) ==
    [fn |-> "patch", path |-> path, headers |-> headers, data |-> body]
CallDelete(path, headers) == [fn |-> "delete", path |-> path, headers |-> headers]

HttpMethods == {"get", "post", "patch", "delete"}

\* str(v) of a string or of None
py_str(v) == IF v.t = "str" THEN v.s ELSE "None"

\* What a handler did: the calls it made on central_api, and how it ended.
Effect(cs, r) == [calls |-> cs, ret |-> r]

----------------------------------------------------------------------------
(* The six handlers, lines 190-280 *)

get_groups_twice(limit, offset) ==
    LET query_params == Dict([limit |-> limit, offset |-> offset])
        headers == get_headers(FALSE, "get")
        path == get_url("/configuration/v2/groups", query_params)
    IN  Effect(<<CallGetHeaders(FALSE, "get"),
                 CallGetUrl("/configuration/v2/groups", query_params),
                 CallGet(path, headers),
                 CallGet(path, headers)>>, Pending)

get_groups(limit, offset) ==
    LET endpoint == "/configuration/v2/groups"
        query_params == Dict([limit |-> limit, offset |-> offset])
        headers == get_headers(FALSE, "get")
        path == get_url(endpoint, query_params)
    IN  Effect(<<CallGetHeaders(FALSE, "get"),
                 CallGetUrl(endpoint, query_params),
                 CallGet(path, headers)>>, Pending)

get_group_mode(group_list) ==
    IF group_list # None
    THEN LET groups == get_list_params(group_list)
             query_params == Dict([groups |-> groups])
             headers == get_headers(FALSE, "get")
             path == get_url("/configuration/v2/groups/template_info", query_params)
         IN  Effect(<<CallGetListParams(group_list),
                      CallGetHeaders(FALSE, "get"),
                      CallGetUrl("/configuration/v2/groups/template_info", query_params),
                      CallGet(path, headers)>>, Pending)
    ELSE Effect(<<>>, error_msg("get"))

clone_name_only(group_name, clone_from_group) ==
    IF Truthy(group_name)
    THEN Effect(<<CallGetHeaders(FALSE, "post"),
                  CallPost(Str("/configuration/v2/groups/clone"),
                           get_headers(FALSE, "post"),
                           Dict([group |-> group_name,
                                 clone_group |-> clone_from_group]))>>, Pending)
    ELSE Effect(<<>>, error_msg("clone"))

clone(group_name, clone_from_group) ==
    IF Truthy(group_name) /\ clone_from_group # None
    THEN LET path == Str("/configuration/v2/groups/clone")
             body == Dict([group |-> group_name, clone_group |-> clone_from_group])
             headers == get_headers(FALSE, "post")
         IN  Effect(<<CallGetHeaders(FALSE, "post"),
                      CallPost(path, headers, body)>>, Pending)
    ELSE Effect(<<>>, error_msg("clone"))

\* d[key] for a value d: the exception it raises, "" when it raises none
ItemError(d, key) ==
    IF d.t # "dict" THEN "TypeError"
    ELSE IF key \notin DOMAIN d.d THEN "KeyError"
    ELSE ""

\* the first exception raised by subscripting d with the keys in order
RECURSIVE FirstItemError(_, _, _)
FirstItemError(d, keys, i) ==
    IF i > Len(keys) THEN ""
    ELSE IF ItemError(d, keys[i]) # "" THEN ItemError(d, keys[i])
    ELSE FirstItemError(d, keys, i + 1)

\* the dict literal of lines 235-251, given the name of the template key
CreateData(group_name, group_attributes, template_key) ==
    LET ga == group_attributes
        e1 == ItemError(ga, template_key)
        e2 == IF e1 # "" THEN e1
              ELSE FirstItemError(ga.d[template_key], <<"wired", "wireless">>, 1)
        e3 == IF e2 # "" THEN e2
              ELSE FirstItemError(ga, <<"device_type", "architecture", "ap_role",
                                        "gw_role", "switch_type", "monitor_mode",
                                        "new_central">>, 1)
    IN  IF e3 # "" THEN Raise(e3)
        ELSE Return(Dict(
               [group |-> group_name,
                group_attributes |-> Dict(
                  [template_info |-> Dict(
                     [Wired |-> ga.d[template_key].d["wired"],
                      Wireless |-> ga.d[template_key].d["wireless"]]),
                   group_properties |-> Dict(
                     ("AllowedDevTypes" :> ga.d["device_type"])
                       @@ ("Architecture" :> ga.d["architecture"])
                       @@ ("ApNetworkRole" :> ga.d["ap_role"])
                       @@ ("GwNetworkRole" :> ga.d["gw_role"])
                       @@ ("AllowedSwitchTypes" :> ga.d["switch_type"])
                       @@ ("MonitorOnly:" :> ga.d["monitor_mode"])
                       @@ ("NewCentral" :> ga.d["new_central"]))])]))

CreateEffect(group_name, group_attributes, template_key) ==
    IF Truthy(group_name) /\ group_attributes # None
    THEN LET path == Str("/configuration/v3/groups")
             body == CreateData(group_name, group_attributes, template_key)
             headers == get_headers(FALSE, "post")
         IN  IF body.k = "raise" THEN Effect(<<>>, body)
             ELSE Effect(<<CallGetHeaders(FALSE, "post"),
                           CallPost(path, headers, remove_nulls(body.v))>>, Pending)
    ELSE Effect(<<>>, error_msg("create"))

create_group_template_group(group_name, group_attributes) ==
    CreateEffect(group_name, group_attributes, "template_group")

create_group(group_name, group_attributes) ==
    CreateEffect(group_name, group_attributes, "template_info")

update_group(group_name, group_attributes) ==
    IF Truthy(group_name) /\ group_attributes # None
    THEN LET path == Str("/configuration/v2/groups/" \o py_str(group_name))
             body == group_attributes
             headers == get_headers(FALSE, "post")
         IN  Effect(<<CallGetHeaders(FALSE, "post"),
                      CallPatch(path, headers, body)>>, Pending)
    ELSE Effect(<<>>, error_msg("update"))

delete_group_v2(group_name) ==
    IF group_name # None
    THEN Effect(<<CallGetHeaders(FALSE, "delete"),
                  CallDelete(Str("/configuration/v2/groups/" \o py_str(group_name)),
                             get_headers(FALSE, "delete"))>>, Pending)
    ELSE Effect(<<>>, error_msg("delete"))

delete_group(group_name) ==
    IF group_name # None
    THEN LET path == Str("/configuration/v1/groups/" \o py_str(group_name))
             headers == get_headers(FALSE, "delete")
         IN  Effect(<<CallGetHeaders(FALSE, "delete"),
                      CallDelete(path, headers)>>, Pending)
    ELSE Effect(<<>>, error_msg("delete"))

----------------------------------------------------------------------------
(* module.params: the values argument_spec (lines 327-361) lets through.     *)
(* api_call does not rely on the `choices` of action: it lower-cases the     *)
(* string and keeps an else branch of its own, so the action drawn may be    *)
(* any string.  An option that is not required and has no default is None    *)
(* when the playbook leaves it out; template_info applies its defaults, so   *)
(* it is always a dict of two booleans; device_type is required.             *)

Actions == {"get_groups", "get_group_mode", "clone", "update", "create", "delete"}
ActionInputs == Actions \cup {"GET_GROUPS", "reboot"}

\* str.lower() on the action strings drawn
lower(s) == IF s = "GET_GROUPS" THEN "get_groups" ELSE s

\* `"get" in s` on the action strings drawn (the test is case-sensitive)
contains_get(s) == s \in {"get_groups", "get_group_mode"}

GroupNames == {None, Str(""), Str("g1")}
CloneFromGroups == {None, Str(""), Str("g0")}
GroupName(i) == Str("g" \o ToString(i))
GroupLists ==
    {None} \cup {List([i \in 1..n |-> GroupName(i)]) : n \in 0..MaxGroups}

OptionalValue ==
    [architecture |-> Str("AOS10"),
     ap_role      |-> Str("Standard"),
     gw_role      |-> Str("BranchGateway"),
     switch_type  |-> List(<<Str("AOS_CX")>>),
     monitor_mode |-> List(<<Str("AOS_S")>>),
     new_central  |-> Str("True")]
OptionalKeys == DOMAIN OptionalValue
TemplateInfos ==
    {Dict([wired |-> Bool(w), wireless |-> Bool(x)]) : w \in BOOLEAN, x \in BOOLEAN}
DeviceTypes == {List(<<Str("AccessPoints")>>)}

Attributes(ti, dt, set) ==
    Dict([key \in OptionalKeys \cup {"template_info", "device_type"} |->
            IF key = "template_info" THEN ti
            ELSE IF key = "device_type" THEN dt
            ELSE IF key \in set THEN OptionalValue[key]
            ELSE None])

GroupAttributes ==
    {None} \cup
    {Attributes(ti, dt, set) :
        ti \in TemplateInfos, dt \in DeviceTypes,
        set \in {S \in SUBSET OptionalKeys : Cardinality(S) <= MaxOptions}}

Params ==
    [action : ActionInputs,
     group_name : GroupNames,
     group_list : GroupLists,
     group_attributes : GroupAttributes,
     limit : {Num(20)},
     offset : {Num(0)},
     clone_from_group : CloneFromGroups]

\* what the HTTP client may hand back: {resp, code}
Codes == {None, Num(0), Num(200), Num(201), Num(304), Num(400), Num(404), Num(500)}
Bodies == {None, Str("Internal error"), Str("[]")}

----------------------------------------------------------------------------
(* api_call, lines 284-319, and main, lines 363-382 *)

ExitJson(c, m, rc) ==
    [fn |-> "exit_json", changed |-> c, msg |-> m, response_code |-> rc]
FailJson(c, m, rc) ==
    [fn |-> "fail_json", changed |-> c, msg |-> m, response_code |-> rc]
NoOutcome == [fn |-> "none"]

\* lines 316-317: fail_json does not return
unsupported_action ==
    [fn |-> "fail_json", changed |-> FALSE,
     msg |-> Str("Unsupported action provided in playbook")]

Selected(h, eff) == [handler |-> h, calls |-> eff.calls, ret |-> eff.ret]

api_call_default_get_groups(p) ==
    LET action == lower(p.action)
    IN  IF action = "get_group_mode"
        THEN Selected("get_group_mode", get_group_mode(p.group_list))
        ELSE IF action = "clone"
        THEN Selected("clone", clone(p.group_name, p.clone_from_group))
        ELSE IF action = "create"
        THEN Selected("create_group", create_group(p.group_name, p.group_attributes))
        ELSE IF action = "update"
        THEN Selected("update_group", update_group(p.group_name, p.group_attributes))
        ELSE IF action = "delete"
        THEN Selected("delete_group", delete_group(p.group_name))
        ELSE Selected("get_groups", get_groups(p.limit, p.offset))

api_call(p) ==
    LET action == lower(p.action)
    IN  IF action = "get_groups"
        THEN Selected("get_groups", get_groups(p.limit, p.offset))
        ELSE IF action = "get_group_mode"
        THEN Selected("get_group_mode", get_group_mode(p.group_list))
        ELSE IF action = "clone"
        THEN Selected("clone", clone(p.group_name, p.clone_from_group))
        ELSE IF action = "create"
        THEN Selected("create_group", create_group(p.group_name, p.group_attributes))
        ELSE IF action = "update"
        THEN Selected("update_group", update_group(p.group_name, p.group_attributes))
        ELSE IF action = "delete"
        THEN Selected("delete_group", delete_group(p.group_name))
        ELSE [handler |-> "", calls |-> <<>>,
              ret |-> [k |-> "exit", outcome |-> unsupported_action]]

\* lines 365-367
main_changed_not_get_groups(action) == action # "get_groups"

main_changed(action) == ~contains_get(action)

\* json.loads on the bodies drawn
json_loads(v) ==
    IF v.t # "str" THEN Raise("TypeError")
    ELSE IF v.s = "[]" THEN Return(List(<<>>))
    ELSE Raise("ValueError")

in_codes(code, codes) == code.t = "int" /\ code.i \in codes

success_codes == {200, 201}
exit_codes == {304, 400, 404}

\* lines 369-372
parse_resp(res) ==
    [resp |-> IF json_loads(res.resp).k = "return"
              THEN json_loads(res.resp).v ELSE res.resp,
     code |-> res.code]

\* lines 374-382, on the record parse_resp left
respond_without_304(chg, res) ==
    IF Truthy(res.code) /\ in_codes(res.code, success_codes)
    THEN ExitJson(chg, res.resp, res.code)
    ELSE IF Truthy(res.code) /\ in_codes(res.code, {400, 404})
    THEN ExitJson(FALSE, res.resp, res.code)
    ELSE FailJson(FALSE, res.resp, res.code)

respond(chg, res) ==
    IF Truthy(res.code) /\ in_codes(res.code, success_codes)
    THEN ExitJson(chg, res.resp, res.code)
    ELSE IF Truthy(res.code) /\ in_codes(res.code, exit_codes)
    THEN ExitJson(FALSE, res.resp, res.code)
    ELSE FailJson(FALSE, res.resp, res.code)

----------------------------------------------------------------------------
(* The invocation as a state machine *)

NoResult == [resp |-> None, code |-> None]
Empty == Dict(<<>>)

Init ==
    /\ params \in Params
    /\ pc = "start"
    /\ changed = FALSE
    /\ handlers = <<>>
    /\ calls = <<>>
    /\ result = NoResult
    /\ outcome = NoOutcome
    /\ data = Empty
    /\ parsed_data = Empty
    /\ passes = 0

\* main from line 363 up to the point where the selected handler has either
\* returned a record, handed a request to the HTTP client, or ended the run
Run(sel) ==
    /\ changed' = main_changed(params.action)
    /\ handlers' = IF sel.handler = "" THEN handlers ELSE Append(handlers, sel.handler)
    /\ calls' = calls \o sel.calls
    /\ IF sel.ret.k = "client"
       THEN pc' = "waiting" /\ UNCHANGED <<result, outcome>>
       ELSE IF sel.ret.k = "return"
       THEN pc' = "returned" /\ result' = sel.ret.v /\ UNCHANGED outcome
       ELSE IF sel.ret.k = "exit"
       THEN pc' = "done" /\ outcome' = sel.ret.outcome /\ UNCHANGED result
       ELSE pc' = "done" /\ outcome' = [fn |-> "exception", exc |-> sel.ret.e]
                         /\ UNCHANGED result
    /\ UNCHANGED <<params, data, parsed_data, passes>>

GetGroups ==
    /\ pc = "start"
    /\ api_call(params).handler = "get_groups"
    /\ Run(api_call(params))

GetGroupMode ==
    /\ pc = "start"
    /\ api_call(params).handler = "get_group_mode"
    /\ Run(api_call(params))

Clone ==
    /\ pc = "start"
    /\ api_call(params).handler = "clone"
    /\ Run(api_call(params))

CreateGroup ==
    /\ pc = "start"
    /\ api_call(params).handler = "create_group"
    /\ Run(api_call(params))

UpdateGroup ==
    /\ pc = "start"
    /\ api_call(params).handler = "update_group"
    /\ Run(api_call(params))

DeleteGroup ==
    /\ pc = "start"
    /\ api_call(params).handler = "delete_group"
    /\ Run(api_call(params))

\* the else branch of api_call: fail_json ends the run
UnsupportedAction ==
    /\ pc = "start"
    /\ api_call(params).handler = ""
    /\ Run(api_call(params))

\* the HTTP client returns from get / post / patch / delete
HttpReturn ==
    /\ pc = "waiting"
    /\ \E code \in Codes, body \in Bodies : result' = [resp |-> body, code |-> code]
    /\ pc' = "returned"
    /\ UNCHANGED <<params, changed, handlers, calls, outcome, data, parsed_data, passes>>

\* main, lines 369-382
Respond ==
    /\ pc = "returned"
    /\ result' = parse_resp(result)
    /\ outcome' = respond(changed, parse_resp(result))
    /\ pc' = "done"
    /\ UNCHANGED <<params, changed, handlers, calls, data, parsed_data, passes>>

Next ==
    \/ GetGroups
    \/ GetGroupMode
    \/ Clone
    \/ CreateGroup
    \/ UpdateGroup
    \/ DeleteGroup
    \/ UnsupportedAction
    \/ HttpReturn
    \/ Respond

Spec == Init /\ [][Next]_vars

----------------------------------------------------------------------------
(* remove_nulls applied to nested structures, once and then to its own result *)

MaxItems == 1       \* longest list inside a structure
Atoms == {None, Num(0), Bool(FALSE), Str("")}
Keys == {"a", "b"}

Dicts(V) == {Dict(f) : f \in UNION {[S -> V] : S \in SUBSET Keys}}
Lists(V) == {List(q) : q \in UNION {[1..n -> V] : n \in 0..MaxItems}}

RECURSIVE Values(_)
Values(n) ==
    IF n = 0 THEN Atoms
    ELSE Atoms \cup Lists(Values(n - 1)) \cup Dicts(Values(n - 1))

Structures == Dicts(Values(MaxDepth - 1))

InitRemoveNulls ==
    /\ data \in Structures
    /\ parsed_data = Empty
    /\ passes = 0
    /\ params = [action |-> "get_groups", group_name |-> None, group_list |-> None,
                 group_attributes |-> None, limit |-> Num(20), offset |-> Num(0),
                 clone_from_group |-> None]
    /\ pc = "remove_nulls"
    /\ changed = FALSE
    /\ handlers = <<>>
    /\ calls = <<>>
    /\ result = NoResult
    /\ outcome = NoOutcome

RemoveNulls ==
    /\ pc = "remove_nulls"
    /\ passes < 2
    /\ parsed_data' = remove_nulls(IF passes = 0 THEN data ELSE parsed_data)
    /\ passes' = passes + 1
    /\ UNCHANGED <<params, pc, changed, handlers, calls, result, outcome, data>>

NextRemoveNulls == RemoveNulls

SpecRemoveNulls == InitRemoveNulls /\ [][NextRemoveNulls]_vars

----------------------------------------------------------------------------
(* Properties *)

\* the requests handed to get / post / patch / delete so far
is_http(c) == c.fn \in HttpMethods
HttpCalls == SelectSeq(calls, is_http)

Classified == pc = "done" /\ "response_code" \in DOMAIN outcome

\* C1: once main classifies the response, the status code alone decides the
\* class: 200/201 give exit_json with main's `changed`, 304/400/404 give
\* exit_json with changed=false, every other code (None and 0 included) gives
\* fail_json; the message is the parsed body or the raw one, never a failure.
C1_ClassByStatusCode ==
    Classified =>
        /\ outcome.response_code = result.code
        /\ outcome.msg = result.resp
        /\ IF result.code \in {Num(200), Num(201)}
           THEN outcome.fn = "exit_json" /\ outcome.changed = changed
           ELSE IF result.code \in {Num(304), Num(400), Num(404)}
           THEN outcome.fn = "exit_json" /\ outcome.changed = FALSE
           ELSE outcome.fn = "fail_json" /\ outcome.changed = FALSE

C1_Witness ==
    /\ Classified
    /\ result.code = Num(304)
    /\ outcome.fn = "exit_json"
    /\ outcome.msg = List(<<>>)

\* C2: for the six enumerated actions the run is reported changed=true exactly
\* when the action is clone, create, update or delete and the status is 200 or
\* 201.
C2_ChangedIffWriteSucceeded ==
    (pc = "done" /\ params.action \in Actions) =>
        /\ "changed" \in DOMAIN outcome
        /\ outcome.changed <=>
              /\ params.action \in {"clone", "create", "update", "delete"}
              /\ result.code \in {Num(200), Num(201)}

C2_Witness ==
    /\ pc = "done"
    /\ params.action = "delete"
    /\ result.code = Num(200)
    /\ outcome.changed

\* the table of section 4.1: the canned message of each action
Canned(action) ==
    CASE action = "get_group_mode" ->
           Str("List of groups (group_list) not present in the playbook")
      [] action = "clone" ->
           Str("Group name or clone-from-group parameters not present in the playbook")
      [] action \in {"create", "update"} ->
           Str("Group name or Group attributes not present in the playbook")
      [] action = "delete" ->
           Str("Group name to be deleted not present in the playbook")
      [] OTHER -> None

\* some field the action requires is None
RequiredNone(p) ==
    CASE p.action = "get_group_mode" -> p.group_list = None
      [] p.action = "clone" -> p.group_name = None \/ p.clone_from_group = None
      [] p.action \in {"create", "update"} ->
           p.group_name = None \/ p.group_attributes = None
      [] p.action = "delete" -> p.group_name = None
      [] OTHER -> FALSE

\* some field the action requires is None, "", [] or {}
RequiredEmpty(p) ==
    CASE p.action = "get_group_mode" -> ~Truthy(p.group_list)
      [] p.action = "clone" -> ~Truthy(p.group_name) \/ ~Truthy(p.clone_from_group)
      [] p.action \in {"create", "update"} ->
           ~Truthy(p.group_name) \/ ~Truthy(p.group_attributes)
      [] p.action = "delete" -> ~Truthy(p.group_name)
      [] OTHER -> FALSE

ValidationError ==
    /\ pc \in {"returned", "done"}
    /\ calls = <<>>
    /\ result = [resp |-> Canned(params.action), code |-> Num(400)]

\* C3: when a field the action requires is None, the handler returns
\* {resp: canned message, code: 400} and nothing is called on the HTTP client.
C3_AbsentFieldIsLocalError ==
    (pc # "start" /\ RequiredNone(params)) => ValidationError

C3_Witness ==
    /\ pc = "returned"
    /\ params.action = "clone"
    /\ params.group_name = Str("g1")
    /\ params.clone_from_group = None
    /\ calls = <<>>
    /\ result.code = Num(400)

\* C4: when a field the action requires is empty (None, "", [] or {}), the
\* run ends in the code-400 validation error and no request is sent.
C4_EmptyFieldIsLocalError ==
    (pc # "start" /\ RequiredEmpty(params)) => ValidationError

\* every field the action does not require is left out of the playbook
Absent(p, names) ==
    /\ "group_name" \in names => p.group_name = None
    /\ "group_list" \in names => p.group_list = None
    /\ "clone_from_group" \in names => p.clone_from_group = None
    /\ "group_attributes" \in names => p.group_attributes = None

OnlyDeviceType(ga) ==
    /\ ga # None
    /\ \A key \in OptionalKeys : ga.d[key] = None

MinimumFields(p) ==
    CASE p.action = "get_groups" ->
           Absent(p, {"group_name", "group_list", "clone_from_group", "group_attributes"})
      [] p.action = "get_group_mode" ->
           /\ Truthy(p.group_list)
           /\ Absent(p, {"group_name", "clone_from_group", "group_attributes"})
      [] p.action = "clone" ->
           /\ Truthy(p.group_name) /\ Truthy(p.clone_from_group)
           /\ Absent(p, {"group_list", "group_attributes"})
      [] p.action \in {"create", "update"} ->
           /\ Truthy(p.group_name) /\ OnlyDeviceType(p.group_attributes)
           /\ Absent(p, {"group_list", "clone_from_group"})
      [] p.action = "delete" ->
           /\ Truthy(p.group_name)
           /\ Absent(p, {"group_list", "clone_from_group", "group_attributes"})
      [] OTHER -> FALSE

\* "g1", "g1,g2", ...: the first n group names joined by commas
JoinedNames(n) ==
    CASE n = 1 -> "g1" [] n = 2 -> "g1,g2" [] n = 3 -> "g1,g2,g3" [] OTHER -> "?"

\* the table of section 4.2 on the request `req`, for the inputs drawn
TableShape(p, req) ==
    CASE p.action = "get_groups" ->
           /\ req.fn = "get"
           /\ req.path.endpoint = "/configuration/v2/groups"
           /\ req.path.query_params = Dict([limit |-> Num(20), offset |-> Num(0)])
      [] p.action = "get_group_mode" ->
           /\ req.fn = "get"
           /\ req.path.endpoint = "/configuration/v2/groups/template_info"
           /\ req.path.query_params =
                 Dict([groups |-> Str(JoinedNames(Len(p.group_list.l)))])
      [] p.action = "clone" ->
           /\ req.fn = "post"
           /\ req.path = Str("/configuration/v2/groups/clone")
           /\ req.data = Dict([group |-> Str("g1"), clone_group |-> Str("g0")])
      [] p.action = "create" ->
           /\ req.fn = "post"
           /\ req.path = Str("/configuration/v3/groups")
           /\ req.data = Dict(
                [group |-> Str("g1"),
                 group_attributes |-> Dict(
                   [template_info |-> Dict(
                      [Wired |-> p.group_attributes.d["template_info"].d["wired"],
                       Wireless |-> p.group_attributes.d["template_info"].d["wireless"]]),
                    group_properties |-> Dict(
                      [AllowedDevTypes |-> List(<<Str("AccessPoints")>>)])])])
      [] p.action = "update" ->
           /\ req.fn = "patch"
           /\ req.path = Str("/configuration/v2/groups/g1")
           /\ req.data = p.group_attributes
      [] p.action = "delete" ->
           /\ req.fn = "delete"
           /\ req.path = Str("/configuration/v1/groups/g1")
           /\ "data" \notin DOMAIN req
      [] OTHER -> FALSE

\* C5: given only the minimum required fields, each of the six actions hands
\* the HTTP client exactly one request, with the method, path and query or
\* body of the table of section 4.2.
C5_RequestShape ==
    (pc # "start" /\ MinimumFields(params)) =>
        /\ Len(HttpCalls) = 1
        /\ TableShape(params, HttpCalls[1])

C5_Witness ==
    /\ pc = "waiting"
    /\ params.action = "get_group_mode"
    /\ params.group_list = List(<<Str("g1"), Str("g2")>>)
    /\ MinimumFields(params)
    /\ HttpCalls[1].path.query_params = Dict([groups |-> Str("g1,g2")])

\* no mapping entry of v, at any depth, has the value None
RECURSIVE NoNullEntry(_)
NoNullEntry(v) ==
    CASE v.t = "dict" ->
           \A key \in DOMAIN v.d : v.d[key] # None /\ NoNullEntry(v.d[key])
      [] v.t = "list" -> \A i \in DOMAIN v.l : NoNullEntry(v.l[i])
      [] OTHER -> TRUE

\* C6: no body that create or update passes to the HTTP client has a mapping
\* entry, at any depth, whose value is null.
C6_NoNullTransmitted ==
    \A i \in DOMAIN calls :
        (calls[i].fn \in {"post", "patch"} /\ lower(params.action) \in {"create", "update"})
            => NoNullEntry(calls[i].data)

\* C7: every invocation ends in a {resp, code} record that main reports with
\* exit_json or fail_json; no exception leaves api_call or a handler.
C7_NoExceptionEscapes ==
    /\ outcome.fn # "exception"
    /\ pc = "returned" => DOMAIN result = {"resp", "code"}
    /\ pc = "done" => outcome.fn \in {"exit_json", "fail_json"}

C7_Witness ==
    /\ pc = "done"
    /\ params.action = "create"
    /\ params.group_name = Str("g1")
    /\ OnlyDeviceType(params.group_attributes)
    /\ Len(HttpCalls) = 1
    /\ outcome.fn = "exit_json"

UnsupportedEnd ==
    /\ pc = "done"
    /\ outcome = [fn |-> "fail_json", changed |-> FALSE,
                  msg |-> Str("Unsupported action provided in playbook")]
    /\ handlers = <<>>
    /\ calls = <<>>

HandlerOf(action) ==
    CASE action = "get_groups" -> "get_groups"
      [] action = "get_group_mode" -> "get_group_mode"
      [] action = "clone" -> "clone"
      [] action = "create" -> "create_group"
      [] action = "update" -> "update_group"
      [] action = "delete" -> "delete_group"
      [] OTHER -> ""

C9_State ==
    /\ Len(HttpCalls) <= 1
    /\ (pc # "start" /\ params.action \in Actions) =>
           handlers = <<HandlerOf(params.action)>>
    /\ pc = "waiting" => Len(HttpCalls) = 1 /\ outcome = NoOutcome
    /\ outcome # NoOutcome => pc = "done"

C9_Step ==
    /\ outcome # NoOutcome => calls' = calls /\ outcome' = outcome
    /\ outcome' # outcome => pc # "waiting"
    /\ calls' # calls => pc = "start"

\* C9: for an enumerated action exactly one handler is selected; at most one
\* request is handed to get / post / patch / delete; the outcome is reported
\* only after that call has returned, and no call follows it.
C9_OneHandlerOneRequest == []C9_State /\ [][C9_Step]_vars

C9_Witness ==
    /\ pc = "done"
    /\ Len(handlers) = 1
    /\ Len(HttpCalls) = 1
    /\ outcome # NoOutcome

\* v holds no None at any depth, inside lists as well as inside dicts
RECURSIVE NoNullAnywhere(_)
NoNullAnywhere(v) ==
    CASE v.t = "none" -> FALSE
      [] v.t = "dict" -> \A key \in DOMAIN v.d : NoNullAnywhere(v.d[key])
      [] v.t = "list" -> \A i \in DOMAIN v.l : NoNullAnywhere(v.l[i])
      [] OTHER -> TRUE

Falsy == {Num(0), Bool(FALSE), Str("")}

\* every 0, false and "" under a key of dict v, or of a dict nested in it,
\* is under the same key of w
RECURSIVE KeepsFalsy(_, _)
KeepsFalsy(v, w) ==
    \A key \in DOMAIN v.d :
        /\ v.d[key] \in Falsy => key \in DOMAIN w.d /\ w.d[key] = v.d[key]
        /\ v.d[key].t = "dict" =>
              key \in DOMAIN w.d /\ w.d[key].t = "dict" /\ KeepsFalsy(v.d[key], w.d[key])

\* C10: remove_nulls is idempotent, its result holds no null at any depth
\* (nulls inside sequences included), and every 0, false and "" of the input
\* is kept under its key.
C10_RemoveNulls ==
    /\ passes = 2 => parsed_data = remove_nulls(data)
    /\ passes >= 1 => NoNullAnywhere(parsed_data)
    /\ passes >= 1 => KeepsFalsy(data, remove_nulls(data))

====
